---- MODULE Spec2Model ----
(***************************************************************************)
(* Model of backend/danswer/connectors/file/connector.py: the file         *)
(* connector's generator load_from_state, the helper generator             *)
(* _read_files_and_metadata and the document builder _process_file.        *)
(*                                                                         *)
(* Encoding.  A file name is a sequence of tokens: directory components,   *)
(* the stem, and last the extension with its dot (<<"d","a",".txt">> is    *)
(* d/a.txt).  A metadata value is a sequence of strings with its Python    *)
(* type first: <<"str",s>>, <<"list",n1,..>>, <<"ts",..>> (a datetime),    *)
(* <<"None">>.  A metadata dict is a function from its keys.               *)
(***************************************************************************)
EXTENDS Naturals, Sequences, FiniteSets, TLC

VARIABLES
  store,            \* the file store: resolved name -> blob (absent = not in DOMAIN)
  file_locations,   \* self.file_locations
  batch_size,       \* self.batch_size
  pdf_pass,         \* self.pdf_pass
  pc,               \* where the generator load_from_state stands
  locIdx,           \* index in file_locations of the for loop of line 222
  current_datetime, \* local of line 223
  files,            \* the generator of line 224: its state and the items it has left
  documents,        \* local `documents`
  emitted,          \* the batches the consumer has received, in order
  result,           \* outcome of the consumer's latest next()
  trace             \* history: what was done, in order

vars == <<store, file_locations, batch_size, pdf_pass, pc, locIdx,
          current_datetime, files, documents, emitted, result, trace>>

\* ------------------------------------------------------------------ bounds
MaxLocs == 3
MaxBatch == 3

\* ------------------------------------------------------------------ values
None == <<"None">>
Absent == <<"absent">>
Str(s) == <<"str", s>>
List(names) == <<"list">> \o names
IsStr(v) == v[1] = "str"
IsList(v) == v[1] = "list"

\* Python truthiness of a metadata value
Truthy(v) ==
  CASE v[1] = "None" -> FALSE
    [] v[1] = "str" -> v[2] # ""
    [] v[1] = "list" -> Len(v) > 1
    [] OTHER -> TRUE

EmptyMeta == [k \in {} |-> None]
Get(m, k, default) == IF k \in DOMAIN m THEN m[k] ELSE default
MkBag(f) == [k \in {x \in DOMAIN f : f[x] # Absent} |-> f[k]]

\* datetime.now(timezone.utc) read while location i is being started
NowAt(i) == <<"ts", "now">> \o [j \in 1..i |-> "+"]
\* datetime.now(timezone.utc) evaluated inside _process_file (line 151)
NowInProcess == <<"ts", "now", "process">>

\* ------------------------------------------------------------------ names
PathOf(raw) == SelectSeq(raw, LAMBDA c : c # ".")
dirname(name) == IF Len(name) <= 2 THEN <<>> ELSE SubSeq(name, 1, Len(name) - 2)
basename(name) == IF Len(name) <= 2 THEN name ELSE SubSeq(name, Len(name) - 1, Len(name))
join(dir, inner) == IF inner # <<>> /\ inner[1] = "/" THEN inner ELSE dir \o inner

Lower(e) == IF e = ".TXT" THEN ".txt" ELSE e
get_file_ext(name) == IF name = <<>> THEN "" ELSE Lower(name[Len(name)])

PassthroughExts ==
  {".txt", ".md", ".mdx", ".pdf", ".docx", ".pptx", ".xlsx", ".csv", ".eml", ".epub"}
check_file_ext_is_valid(extension) == extension \in PassthroughExts \cup {".zip"}

\* extensions with an extractor of their own, which returns no metadata
DedicatedExts == {".pdf", ".docx", ".pptx", ".xlsx", ".csv", ".eml", ".epub"}

\* ------------------------------------------------------------------ timestamps
ParseTable == ("sA" :> "tA") @@ ("sA2" :> "tA") @@ ("sB" :> "tB")
Parseable(v) == IsStr(v) /\ v[2] \in DOMAIN ParseTable
time_str_to_utc(v) == <<"ts", ParseTable[v[2]]>>

\* ------------------------------------------------------------------ text
IsSpace(c) == c \in {" ", "\n"}
RECURSIVE LStrip(_)
LStrip(s) == IF s # <<>> /\ IsSpace(Head(s)) THEN LStrip(Tail(s)) ELSE s
RECURSIVE RStrip(_)
RStrip(s) ==
  IF s # <<>> /\ IsSpace(s[Len(s)]) THEN RStrip(SubSeq(s, 1, Len(s) - 1)) ELSE s
strip(s) == RStrip(LStrip(s))

\* ------------------------------------------------------------------ blobs
\* What the bytes of a blob give when read as a document (text, fmeta, fails,
\* password) and when opened as a zip archive (entries, malformed).
File(text, fmeta) ==
  [text |-> text, fmeta |-> fmeta, fails |-> FALSE, password |-> "",
   entries |-> <<>>, malformed |-> TRUE]
Encrypted(text, pw) ==
  [text |-> text, fmeta |-> EmptyMeta, fails |-> FALSE, password |-> pw,
   entries |-> <<>>, malformed |-> TRUE]
Zip(entries) ==
  [text |-> <<>>, fmeta |-> EmptyMeta, fails |-> TRUE, password |-> "",
   entries |-> entries, malformed |-> FALSE]
NotAZip ==
  [text |-> <<>>, fmeta |-> EmptyMeta, fails |-> TRUE, password |-> "",
   entries |-> <<>>, malformed |-> TRUE]
ZipEntry(filename, meta, body) ==
  [filename |-> filename, is_dir |-> FALSE, corrupt |-> FALSE, meta |-> meta, body |-> body]
ZipDir(filename) ==
  [filename |-> filename, is_dir |-> TRUE, corrupt |-> FALSE, meta |-> EmptyMeta,
   body |-> NotAZip]
ZipCorrupt(filename) ==
  [filename |-> filename, is_dir |-> FALSE, corrupt |-> TRUE, meta |-> EmptyMeta,
   body |-> NotAZip]

\* load_files_from_zip(file_content, ignore_dirs=True): the entries in archive
\* order, directory entries left out, each with its record of the descriptor
load_files_from_zip(file_content) ==
  SelectSeq(file_content.entries, LAMBDA e : ~e.is_dir)

\* read_pdf_file: fails on an encrypted document without the right password
PdfFails(file, pass) == file.password # "" /\ pass # Str(file.password)

\* ------------------------------------------------------------------ _read_files_and_metadata
Item(file_name, inner, file, metadata, corrupt) ==
  [file_name |-> file_name, inner |-> inner, file |-> file, metadata |-> metadata,
   corrupt |-> corrupt]

\* The items the generator yields (inner: file_info.filename of a zip entry, <<>>
\* for a standalone file), or the error its first step raises.
read_files_and_metadata(file_name, st) ==
  LET extension == get_file_ext(file_name)
      directory_path == dirname(file_name)
  IN IF file_name \notin DOMAIN st
       THEN [err |-> "NotFound", items |-> <<>>]
     ELSE LET file_content == st[file_name] IN
       IF extension = ".zip"
         THEN IF file_content.malformed
                THEN [err |-> "MalformedArchive", items |-> <<>>]
              ELSE LET z == load_files_from_zip(file_content) IN
                [err |-> "none",
                 items |-> [i \in 1..Len(z) |->
                     Item(join(directory_path, z[i].filename), z[i].filename,
                          z[i].body, z[i].meta, z[i].corrupt)]]
       ELSE IF extension \in PassthroughExts
         THEN [err |-> "none",
               items |-> <<Item(file_name, <<>>, file_content, EmptyMeta, FALSE)>>]
       ELSE [err |-> "none", items |-> <<>>]

\* ------------------------------------------------------------------ _process_file
Result(err, docs, stage, file_metadata, all_metadata) ==
  [err |-> err, docs |-> docs, stage |-> stage, file_metadata |-> file_metadata,
   all_metadata |-> all_metadata]
NoResult == Result("none", <<>>, "none", EmptyMeta, EmptyMeta)

UnsupportedRaises == Result("UnsupportedFormat", <<>>, "skipped", EmptyMeta, EmptyMeta)
UnsupportedResult == Result("none", <<>>, "skipped", EmptyMeta, EmptyMeta)

\* lines 87-145: the extractor of the extension
Extract(extension, file, pass) ==
  IF extension = ".pdf"
    THEN [fails |-> file.fails \/ PdfFails(file, pass), text |-> file.text,
          file_metadata |-> EmptyMeta]
  ELSE IF extension \in DedicatedExts
    THEN [fails |-> file.fails, text |-> file.text, file_metadata |-> EmptyMeta]
  ELSE [fails |-> file.fails, text |-> file.text, file_metadata |-> file.fmeta]

CallerWins(metadata, file_metadata) ==
  IF DOMAIN metadata # {}
    THEN [k \in DOMAIN metadata \cup DOMAIN file_metadata |->
            IF k \in DOMAIN metadata THEN metadata[k] ELSE file_metadata[k]]
  ELSE file_metadata
\* line 146
AllMetadata(metadata, file_metadata) ==
  IF DOMAIN metadata # {}
    THEN [k \in DOMAIN metadata \cup DOMAIN file_metadata |->
            IF k \in DOMAIN file_metadata THEN file_metadata[k] ELSE metadata[k]]
  ELSE file_metadata

ReservedKeys ==
  {"time_updated", "doc_updated_at", "link", "primary_owners", "secondary_owners",
   "filename", "file_display_name"}
TagsKeepFilename(all_metadata) ==
  [k \in {x \in DOMAIN all_metadata : x \notin ReservedKeys \ {"filename"}} |->
     all_metadata[k]]
\* lines 159-172
MetadataTags(all_metadata) ==
  [k \in {x \in DOMAIN all_metadata : x \notin ReservedKeys} |-> all_metadata[k]]

\* [BasicExpertInfo(display_name=name) for name in names]
Experts(names) == <<"experts">> \o Tail(names)
\* lines 176-185
Owners(owner_names) == IF Truthy(owner_names) THEN Experts(owner_names) ELSE None

IdFromBasename(file_name) == <<"FILE_CONNECTOR__">> \o basename(file_name)
\* line 189
DocId(file_name) == <<"FILE_CONNECTOR__">> \o file_name

process_file(file_name, file, metadata, pass) ==
  LET extension == get_file_ext(file_name) IN
  IF ~check_file_ext_is_valid(extension) THEN UnsupportedResult
  ELSE LET x == Extract(extension, file, pass) IN
  IF x.fails THEN Result("ExtractError", <<>>, "extract", EmptyMeta, EmptyMeta)
  ELSE
    LET file_metadata == x.file_metadata
        all_metadata == AllMetadata(metadata, file_metadata)
        file_display_name_override == Get(all_metadata, "file_display_name", None)
        time_updated0 == Get(all_metadata, "time_updated", NowInProcess)
        dt_str == Get(all_metadata, "doc_updated_at", None)
    IN
    IF IsStr(time_updated0) /\ ~Parseable(time_updated0)
      THEN Result("InvalidTimestamp", <<>>, "merged", file_metadata, all_metadata)
    ELSE IF Truthy(dt_str) /\ ~Parseable(dt_str)
      THEN Result("InvalidTimestamp", <<>>, "merged", file_metadata, all_metadata)
    ELSE
      LET time_updated == IF IsStr(time_updated0) THEN time_str_to_utc(time_updated0)
                          ELSE time_updated0
          final_time_updated == IF Truthy(dt_str) THEN time_str_to_utc(dt_str)
                                ELSE time_updated
          doc == [id |-> DocId(file_name),
                  link |-> Get(all_metadata, "link", None),
                  text |-> strip(x.text),
                  source |-> "file",
                  semantic_identifier |->
                    IF Truthy(file_display_name_override)
                      THEN file_display_name_override ELSE basename(file_name),
                  doc_updated_at |-> final_time_updated,
                  primary_owners |-> Owners(Get(all_metadata, "primary_owners", None)),
                  secondary_owners |-> Owners(Get(all_metadata, "secondary_owners", None)),
                  metadata |-> MetadataTags(all_metadata)]
      IN Result("none", <<doc>>, "merged", file_metadata, all_metadata)

\* lines 229-231
InjectTimeUpdated(metadata, now) ==
  [k \in DOMAIN metadata \cup {"time_updated"} |->
     IF k \in DOMAIN metadata THEN metadata[k] ELSE now]

\* ------------------------------------------------------------------ inputs
TextA == <<" ", "a", "\n">>
TextB == <<"b">>

LocA == <<"d", "a", ".txt">>
LocExe == <<"d", "b", ".exe">>
LocZip == <<"d", "z", ".zip">>
LocPdf == <<"e", ".pdf">>
LocBadZip == <<"d", "bad", ".zip">>
LocTimeZip == <<"t", ".zip">>
LocNotZip == <<"n", ".zip">>
LocGone == <<"d", "gone", ".txt">>
LocGoneExe == <<"gone", ".exe">>

BaseStore ==
  (LocA :> File(TextA, "link" :> Str("http://a")))
  @@ (LocExe :> File(TextB, EmptyMeta))
  @@ (LocZip :> Zip(<<
        ZipEntry(<<"x", ".txt">>,
                 ("link" :> Str("http://x")) @@ ("primary_owners" :> List(<<"alice">>)),
                 File(TextA, EmptyMeta)),
        ZipDir(<<"sub">>),
        ZipEntry(<<"y", ".exe">>, "doc_updated_at" :> Str("bad"), File(TextB, EmptyMeta)),
        ZipEntry(<<"sub", "v", ".csv">>, EmptyMeta, File(TextB, "team" :> Str("ops"))),
        ZipEntry(<<"/", "abs", "u", ".TXT">>, "time_updated" :> Str("sA"),
                 File(TextB, EmptyMeta))>>))
  @@ (LocPdf :> Encrypted(TextB, "pw"))
  @@ (LocBadZip :> Zip(<<
        ZipEntry(<<"p", ".md">>, EmptyMeta, File(TextB, EmptyMeta)),
        ZipCorrupt(<<"c", ".txt">>),
        ZipEntry(<<"q", ".txt">>, EmptyMeta, File(TextA, EmptyMeta))>>))
  @@ (LocTimeZip :> Zip(<<
        ZipEntry(<<"s", ".csv">>, EmptyMeta, File(TextA, EmptyMeta)),
        ZipEntry(<<"r", ".txt">>, "doc_updated_at" :> Str("bad"), File(TextB, EmptyMeta))>>))
  @@ (LocNotZip :> NotAZip)

\* what the constructor may be given: the names above and one unnormalised spelling
RawLocations ==
  {LocA, <<".", "d", "a", ".txt">>, LocExe, LocZip, LocPdf, LocBadZip, LocTimeZip,
   LocNotZip, LocGone, LocGoneExe}

\* metadata a zip descriptor may hold for an entry, and metadata the generic
\* reader may find in the entry itself
CallerMetas ==
  {MkBag([time_updated |-> a, doc_updated_at |-> b, primary_owners |-> c, team |-> d]) :
     a \in {Absent, Str("sA"), Str("bad")},
     b \in {Absent, Str("sB"), Str("")},
     c \in {Absent, List(<<>>), List(<<"alice", "bob">>)},
     d \in {Absent, Str("eng")}}
ExtractorMetas ==
  {MkBag([time_updated |-> a, doc_updated_at |-> b, secondary_owners |-> c, team |-> d]) :
     a \in {Absent, Str("sB")},
     b \in {Absent, Str("sA2")},
     c \in {Absent, List(<<>>), List(<<"carol">>)},
     d \in {Absent, Str("ops")}}

LocMeta == <<"m", ".zip">>
MetaStore(cm, fm) ==
  LocMeta :> Zip(<<
    ZipEntry(<<"k", ".md">>, cm, File(TextA, fm)),
    ZipEntry(<<"n", ".pdf">>,
             ("filename" :> Str("n.pdf")) @@ ("file_display_name" :> Str("N"))
               @@ ("link" :> Str("http://n")) @@ ("color" :> Str("red")),
             File(TextB, "color" :> Str("blue")))>>)

\* ------------------------------------------------------------------ history
Ev(ev, loc, item, md, res, batch) ==
  [ev |-> ev, loc |-> loc, name |-> item.file_name, inner |-> item.inner, md |-> md,
   res |-> res, batch |-> batch]
NoItem == Item(<<>>, <<>>, NotAZip, EmptyMeta, FALSE)

\* ------------------------------------------------------------------ load_from_state
BatchOver(docs, size) == Len(docs) > size
\* line 236
BatchFull(docs, size) == Len(docs) >= size

KeepDocuments(docs) == docs
\* line 238
DocumentsAfterYield(docs) == <<>>

SwallowError(err) == [pc |-> "running", result |-> "none"]
\* an exception leaves the generator: nothing in lines 219-241 catches it
AfterError(err) == [pc |-> "raised", result |-> err]

ExhaustedEarly(f) == f.state \in {"none", "open"}
\* the for loop of line 228 ends when the generator has no item left
Exhausted(f) == f.state = "none" \/ (f.state = "open" /\ f.items = <<>>)

InitState ==
  /\ pdf_pass = None
  /\ pc = "created"
  /\ locIdx = 0
  /\ current_datetime = None
  /\ files = [state |-> "none", items |-> <<>>]
  /\ documents = <<>>
  /\ emitted = <<>>
  /\ result = "none"
  /\ trace = <<>>

\* LocalFileConnector(file_locations, batch_size) over the base store
Init ==
  /\ store = BaseStore
  /\ \E n \in 0..MaxLocs : \E raw \in [1..n -> RawLocations] :
       file_locations = [i \in 1..n |-> PathOf(raw[i])]
  /\ batch_size \in 1..MaxBatch
  /\ InitState

\* LocalFileConnector([m.zip], batch_size) over a store whose archive holds an
\* entry with any metadata of CallerMetas and ExtractorMetas
InitMeta ==
  /\ \E cm \in CallerMetas : \E fm \in ExtractorMetas : store = MetaStore(cm, fm)
  /\ file_locations = <<PathOf(LocMeta)>>
  /\ batch_size \in 1..MaxBatch
  /\ InitState

CredentialBags == {EmptyMeta, "pdf_password" :> Str("pw")}

\* lines 215-217, called before the run starts
load_credentials(credentials) ==
  /\ pc = "created"
  /\ pdf_pass = None
  /\ pdf_pass' = Get(credentials, "pdf_password", None)
  /\ UNCHANGED <<store, file_locations, batch_size, pc, locIdx, current_datetime,
                 files, documents, emitted, result, trace>>

\* the consumer's next() on the generator
Pull ==
  /\ pc # "running"
  /\ ~(pc \in {"done", "raised"} /\ result = "StopIteration")
  /\ trace' = Append(trace, Ev("pull", locIdx, NoItem, EmptyMeta, NoResult, <<>>))
  /\ pc' = CASE pc = "created" -> "running"
             [] pc = "suspended" -> "running"
             [] pc = "suspendedFinal" -> "done"
             [] OTHER -> pc
  /\ documents' = CASE pc = "created" -> <<>>
                    [] pc = "suspended" -> DocumentsAfterYield(documents)
                    [] OTHER -> documents
  /\ result' = IF pc \in {"created", "suspended"} THEN "none" ELSE "StopIteration"
  /\ UNCHANGED <<store, file_locations, batch_size, pdf_pass, locIdx,
                 current_datetime, files, emitted>>

\* lines 222-226: the next location; the generator of its files is created, not run
NextLocation ==
  /\ pc = "running"
  /\ Exhausted(files)
  /\ locIdx < Len(file_locations)
  /\ locIdx' = locIdx + 1
  /\ current_datetime' = NowAt(locIdx + 1)
  /\ files' = [state |-> "fresh", items |-> <<>>]
  /\ UNCHANGED <<store, file_locations, batch_size, pdf_pass, pc, documents,
                 emitted, result, trace>>

\* line 228, first step of the generator: lines 46-71 read the blob and dispatch
ReadBlob ==
  /\ pc = "running"
  /\ files.state = "fresh"
  /\ LET file_name == file_locations[locIdx]
         r == read_files_and_metadata(file_name, store)
         here == Item(file_name, <<>>, NotAZip, EmptyMeta, FALSE)
         after == AfterError(r.err)
     IN IF r.err # "none"
          THEN /\ pc' = after.pc
               /\ result' = after.result
               /\ files' = [state |-> "open", items |-> <<>>]
               /\ trace' = trace \o <<Ev("read", locIdx, here, EmptyMeta, NoResult, <<>>),
                                      Ev("raise", locIdx, here, EmptyMeta,
                                         Result(r.err, <<>>, "read", EmptyMeta, EmptyMeta),
                                         <<>>)>>
        ELSE /\ files' = [state |-> "open", items |-> r.items]
             /\ trace' = Append(trace, Ev("read", locIdx, here, EmptyMeta, NoResult, <<>>))
             /\ UNCHANGED <<pc, result>>
  /\ UNCHANGED <<store, file_locations, batch_size, pdf_pass, locIdx,
                 current_datetime, documents, emitted>>

\* lines 228-238: one item of the current location
ProcessNext ==
  /\ pc = "running"
  /\ files.state = "open"
  /\ files.items # <<>>
  /\ LET item == Head(files.items)
         metadata == InjectTimeUpdated(item.metadata, current_datetime)
         r == IF item.corrupt
                THEN Result("MalformedArchive", <<>>, "read", EmptyMeta, EmptyMeta)
              ELSE process_file(item.file_name, item.file, metadata, pdf_pass)
         docs == documents \o r.docs
         after == AfterError(r.err)
     IN /\ files' = [files EXCEPT !.items = Tail(files.items)]
        /\ IF r.err # "none"
             THEN /\ pc' = after.pc
                  /\ result' = after.result
                  /\ trace' = Append(trace, Ev("raise", locIdx, item, metadata, r, <<>>))
                  /\ UNCHANGED <<documents, emitted>>
           ELSE IF BatchFull(docs, batch_size)
             THEN /\ pc' = "suspended"
                  /\ result' = "batch"
                  /\ documents' = docs
                  /\ emitted' = Append(emitted, docs)
                  /\ trace' = trace \o <<Ev("process", locIdx, item, metadata, r, <<>>),
                                         Ev("emit", locIdx, NoItem, EmptyMeta, NoResult, docs)>>
           ELSE /\ documents' = docs
                /\ trace' = Append(trace, Ev("process", locIdx, item, metadata, r, <<>>))
                /\ UNCHANGED <<pc, result, emitted>>
  /\ UNCHANGED <<store, file_locations, batch_size, pdf_pass, locIdx, current_datetime>>

\* lines 240-241: every location is exhausted
Finish ==
  /\ pc = "running"
  /\ Exhausted(files)
  /\ locIdx = Len(file_locations)
  /\ IF documents # <<>>
       THEN /\ pc' = "suspendedFinal"
            /\ result' = "batch"
            /\ emitted' = Append(emitted, documents)
            /\ trace' = Append(trace, Ev("emit", locIdx, NoItem, EmptyMeta, NoResult, documents))
     ELSE /\ pc' = "done"
          /\ result' = "StopIteration"
          /\ UNCHANGED <<emitted, trace>>
  /\ UNCHANGED <<store, file_locations, batch_size, pdf_pass, locIdx,
                 current_datetime, files, documents>>

Next ==
  \/ \E credentials \in CredentialBags : load_credentials(credentials)
  \/ Pull
  \/ NextLocation
  \/ ReadBlob
  \/ ProcessNext
  \/ Finish

Spec == Init /\ [][Next]_vars
SpecMeta == InitMeta /\ [][Next]_vars

\* ------------------------------------------------------------------ helpers of the properties
RECURSIVE Flatten(_)
Flatten(seqs) == IF seqs = <<>> THEN <<>> ELSE Head(seqs) \o Flatten(Tail(seqs))

RECURSIVE Chunks(_, _)
Chunks(docs, size) ==
  IF docs = <<>> THEN <<>>
  ELSE IF Len(docs) <= size THEN <<docs>>
  ELSE <<SubSeq(docs, 1, size)>> \o Chunks(SubSeq(docs, size + 1, Len(docs)), size)

Calls == {i \in DOMAIN trace : trace[i].ev = "process"}
Raises == {i \in DOMAIN trace : trace[i].ev = "raise"}
Work == {i \in DOMAIN trace : trace[i].ev \in {"read", "process", "raise"}}
\* calls of _process_file that returned a document
DocCalls == {i \in Calls : trace[i].res.docs # <<>>}
\* calls of _process_file that got as far as merging the metadata
Merged == {i \in DOMAIN trace : trace[i].ev \in {"process", "raise"}
                                 /\ trace[i].res.stage = "merged"}

\* the documents _process_file has returned so far, in order
Produced ==
  Flatten([i \in DOMAIN trace |->
             IF trace[i].ev = "process" THEN trace[i].res.docs ELSE <<>>])

UnsupportedName(name) == get_file_ext(name) \notin PassthroughExts \cup {".zip"}

\* The documents of the inputs, from the inputs alone (no batch size): location by
\* location in the constructor's order, entry by entry.
RECURSIVE DocsOfItems(_, _)
DocsOfItems(items, now) ==
  IF items = <<>> THEN <<>>
  ELSE LET it == Head(items) IN
    process_file(it.file_name, it.file, InjectTimeUpdated(it.metadata, now), pdf_pass).docs
      \o DocsOfItems(Tail(items), now)
RECURSIVE DocsFrom(_)
DocsFrom(i) ==
  IF i > Len(file_locations) THEN <<>>
  ELSE DocsOfItems(read_files_and_metadata(file_locations[i], store).items, NowAt(i))
         \o DocsFrom(i + 1)
ExpectedDocs == DocsFrom(1)

\* The same with every unsupported location and entry taken out beforehand.
RECURSIVE SupportedDocsFrom(_)
SupportedDocsFrom(i) ==
  IF i > Len(file_locations) THEN <<>>
  ELSE (IF UnsupportedName(file_locations[i]) THEN <<>>
        ELSE DocsOfItems(
               SelectSeq(read_files_and_metadata(file_locations[i], store).items,
                         LAMBDA it : ~UnsupportedName(it.file_name)),
               NowAt(i)))
         \o SupportedDocsFrom(i + 1)
SupportedDocs == SupportedDocsFrom(1)

\* ------------------------------------------------------------------ C1
\* C1: a complete error-free run over inputs that yield N documents emits exactly
\* ceil(N/B) batches; every batch but the last holds exactly B documents and the
\* last holds between 1 and B; with N = 0 no batch is emitted.
C1_BatchCount ==
  pc = "done" =>
    LET N == Len(ExpectedDocs)
        n == Len(emitted)
    IN /\ n = (N + batch_size - 1) \div batch_size
       /\ \A i \in 1..n :
            IF i < n THEN Len(emitted[i]) = batch_size
            ELSE Len(emitted[i]) \in 1..batch_size
C1_Witness ==
  /\ pc = "done"
  /\ batch_size >= 2
  /\ Len(emitted) >= 2
  /\ Len(emitted[Len(emitted)]) < batch_size

C4_FirstErrorEndsRun ==
  /\ \A i \in Raises : \A j \in DOMAIN trace : j > i => trace[j].ev = "pull"
  /\ (Raises # {}) <=> (pc = "raised")
  /\ \A i \in Raises :
       /\ result \in {trace[i].res.err, "StopIteration"}
       /\ emitted = SubSeq(Chunks(Produced, batch_size), 1, Len(Produced) \div batch_size)
       /\ Cardinality({j \in DOMAIN trace : trace[j].ev = "emit"}) = Len(emitted)
C4_Witness ==
  /\ pc = "raised"
  /\ result = "StopIteration"
  /\ emitted # <<>>
  /\ documents # <<>>
  /\ files.items # <<>>

\* ------------------------------------------------------------------ C5
\* C5: whenever the merged metadata has doc_updated_at as a parseable timestamp
\* string, a document is produced and its updated_at is the parsed value, whatever
\* time_updated is (absent, a timestamp, a parseable or an unparseable string).
C5_DocUpdatedAtWins ==
  \A i \in Merged :
    LET all == trace[i].res.all_metadata
        dt == Get(all, "doc_updated_at", None)
    IN Parseable(dt) =>
         /\ trace[i].res.docs # <<>>
         /\ trace[i].res.docs[1].doc_updated_at = time_str_to_utc(dt)

\* ------------------------------------------------------------------ C6
\* C6: the merged metadata holds, for every key of the extractor's metadata, the
\* extractor's value, and for every other key of the caller's metadata (with the
\* injected time_updated) the caller's value; it has no other key.
C6_ExtractorWins ==
  \A i \in Merged :
    LET md == trace[i].md
        fm == trace[i].res.file_metadata
        all == trace[i].res.all_metadata
    IN /\ "time_updated" \in DOMAIN md
       /\ DOMAIN all = DOMAIN md \cup DOMAIN fm
       /\ \A k \in DOMAIN fm : all[k] = fm[k]
       /\ \A k \in DOMAIN md \ DOMAIN fm : all[k] = md[k]
       /\ trace[i].res.docs # <<>> =>
            trace[i].res.docs[1].link = Get(all, "link", None)
C6_Witness ==
  \E i \in Merged :
    LET md == trace[i].md
        fm == trace[i].res.file_metadata
    IN /\ trace[i].res.docs # <<>>
       /\ \E k \in DOMAIN md \cap DOMAIN fm : md[k] # fm[k]
       /\ "time_updated" \in DOMAIN fm
       /\ DOMAIN md \ DOMAIN fm # {}
       /\ DOMAIN fm \ DOMAIN md # {}

\* ------------------------------------------------------------------ C7
\* C7: for primary_owners and secondary_owners, the document's field is null
\* exactly when the key is absent from the merged metadata, and for a present list
\* of names it is the list of owner records in the same order (an empty list for a
\* list of zero names).
C7_OwnersNullIffAbsent ==
  \A i \in DocCalls :
    LET all == trace[i].res.all_metadata
        doc == trace[i].res.docs[1]
    IN /\ (doc.primary_owners = None) <=> ("primary_owners" \notin DOMAIN all)
       /\ (doc.secondary_owners = None) <=> ("secondary_owners" \notin DOMAIN all)
       /\ ("primary_owners" \in DOMAIN all /\ IsList(all["primary_owners"])) =>
            doc.primary_owners = Experts(all["primary_owners"])
       /\ ("secondary_owners" \in DOMAIN all /\ IsList(all["secondary_owners"])) =>
            doc.secondary_owners = Experts(all["secondary_owners"])

\* ------------------------------------------------------------------ C8
ResolvedName(e) ==
  IF get_file_ext(file_locations[e.loc]) = ".zip"
    THEN join(dirname(file_locations[e.loc]), e.inner)
  ELSE file_locations[e.loc]
\* C8: every document's id is "FILE_CONNECTOR__" followed by its resolved file name
\* (the location for a standalone file, the archive's directory joined with the
\* inner name for a zip entry), so equal resolved names give equal ids; every
\* emitted document is one of these.
C8_IdIsPrefixedName ==
  /\ \A i \in DocCalls :
       trace[i].res.docs[1].id = <<"FILE_CONNECTOR__">> \o ResolvedName(trace[i])
  /\ \A i, j \in DocCalls :
       ResolvedName(trace[i]) = ResolvedName(trace[j]) =>
         trace[i].res.docs[1].id = trace[j].res.docs[1].id
  /\ \A b \in DOMAIN emitted : \A d \in DOMAIN emitted[b] :
       \E i \in DocCalls : trace[i].res.docs[1] = emitted[b][d]
C8_Witness ==
  /\ emitted # <<>>
  /\ \E i, j \in DocCalls :
       /\ i < j
       /\ trace[i].inner # <<>>
       /\ Len(dirname(file_locations[trace[i].loc])) > 0
       /\ ResolvedName(trace[i]) = ResolvedName(trace[j])
       /\ trace[i].res.docs[1] # trace[j].res.docs[1]

\* ------------------------------------------------------------------ C9
\* C9: nothing is done before the first pull; after a batch is emitted the next
\* thing that happens is a pull; work proceeds location by location, the blob of a
\* location being read only after every entry of the location before it has been
\* processed, and before any entry of its own.
C9_SequentialPullDriven ==
  /\ pc = "created" => (trace = <<>> /\ locIdx = 0 /\ emitted = <<>>)
  /\ trace # <<>> => trace[1].ev = "pull"
  /\ \A i \in DOMAIN trace :
       (trace[i].ev = "emit" /\ i < Len(trace)) => trace[i + 1].ev = "pull"
  /\ \A i, j \in Work : i < j => trace[i].loc <= trace[j].loc
  /\ \A j \in DOMAIN trace :
       (trace[j].ev = "read" /\ trace[j].loc > 1) =>
         Cardinality({i \in Calls : i < j /\ trace[i].loc = trace[j].loc - 1})
           = Len(read_files_and_metadata(file_locations[trace[j].loc - 1], store).items)
  /\ \A i \in Calls :
       \E j \in DOMAIN trace : j < i /\ trace[j].ev = "read" /\ trace[j].loc = trace[i].loc
C9_Witness ==
  \E i \in DOMAIN trace :
    /\ trace[i].ev = "emit"
    /\ trace[i].loc = 1
    /\ i + 2 <= Len(trace)
    /\ trace[i + 2].ev = "process"
    /\ \E j \in Calls : j > i /\ trace[j].loc = 2

\* ------------------------------------------------------------------ C10
C10_Reserved ==
  {"time_updated", "doc_updated_at", "link", "primary_owners", "secondary_owners",
   "filename", "file_display_name"}
\* C10: a document's metadata (its tags) holds exactly the pairs of the merged
\* metadata whose key is not reserved: no reserved key among the tags, no other
\* key lost or changed.
C10_TagsAreResidual ==
  \A i \in DocCalls :
    LET all == trace[i].res.all_metadata
        tags == trace[i].res.docs[1].metadata
    IN /\ DOMAIN tags = DOMAIN all \ C10_Reserved
       /\ \A k \in DOMAIN tags : tags[k] = all[k]
C10_Witness ==
  \E i \in DocCalls :
    LET all == trace[i].res.all_metadata
        tags == trace[i].res.docs[1].metadata
    IN /\ "filename" \in DOMAIN all
       /\ "file_display_name" \in DOMAIN all
       /\ "color" \in DOMAIN tags
       /\ tags["color"] = Str("red")

====
